---- MODULE Spec2Model ----
(***************************************************************************)
(* Model of cnn/cnn_bio.py: dataset discovery (get_datasets), fixed-shape  *)
(* encoding (read_data) and the k-fold cross-validation driver (run_model).*)
(*                                                                         *)
(* Three specifications share the module:                                  *)
(*   SpecRead  applies read_data to bounded sample files,                  *)
(*   SpecDs    applies get_datasets to bounded directories,                *)
(*   Spec      runs run_model on bounded datasets and parameters.          *)
(*                                                                         *)
(* Text tokens are records [k, v]: k = "int" is an integer literal,        *)
(* k = "dec" a decimal literal with a fractional part (v in tenths),       *)
(* k = "txt" a non-numeric word, k = "mark" a word that starts with '>'.   *)
(* Floating point values are counted in tenths.                            *)
(***************************************************************************)
EXTENDS Integers, Sequences, FiniteSets, TLC

VARIABLES
    \* ---- read_data harness
    rd_pc, rd_file, rd_h, rd_w, rd_out,
    \* ---- get_datasets harness
    ds_pc, ds_dir, ds_out,
    \* ---- run_model
    pc,                 \* position in run_model
    dir,                \* the dataset directory (os.listdir order)
    n_steps, folds,     \* run parameters
    traning_set, training_labels,
    cv_index_set,       \* the folds not yet iterated
    k_fold_step,
    train_index, test_index,
    step,               \* loop variable of the training loop
    pos,                \* how many samples of the batch being assembled are stacked
    batch_x, batch_y, batch_test_x, batch_test_y,
    weights,            \* classifier state of the session
    evalOut,            \* result of the held-out sess.run
    test_cache, pred_cache, test_index_cache, f_cache,
    report, csv, console,
    \* ---- observation of run_model (history, not program state)
    fitLog,             \* every train_op call: fold, step, batch, weights before
    evalLog,            \* every held-out evaluation
    encLog,             \* test-partition samples encoded in the current fold
    failed,             \* a read_data call of the run has raised
    splits              \* every (train, test) pair the fold loop has taken

rdVars == <<rd_pc, rd_file, rd_h, rd_w, rd_out>>
dsVars == <<ds_pc, ds_dir, ds_out>>
runVars == <<pc, dir, n_steps, folds, traning_set, training_labels, cv_index_set,
             k_fold_step, train_index, test_index, step, pos, batch_x, batch_y,
             batch_test_x, batch_test_y, weights, evalOut, test_cache, pred_cache,
             test_index_cache, f_cache, report, csv, console,
             fitLog, evalLog, encLog, failed, splits>>
vars == <<rdVars, dsVars, runVars>>

----------------------------------------------------------------------------
(* Bounds *)
MaxLines == 3       \* lines of a sample file given to read_data
MaxHeight == 2      \* target heights tried
MaxWidth == 2       \* target widths tried
MaxFiles == 3       \* directory entries given to get_datasets
MaxN == 5           \* samples of a run
MaxFolds == 3       \* k of a run
MaxSteps == 2       \* training steps per fold of a run

(* Program constants *)
DISPLAY_STEP == 2
NClasses == 2       \* n_classes of the runs
RunHeight == 2      \* data_height of the runs
RunWidth == 1       \* data_width of the runs

----------------------------------------------------------------------------
(* Tokens and conversions *)
IntTok(v) == [k |-> "int", v |-> v]
DecTok(v) == [k |-> "dec", v |-> v]
TxtTok == [k |-> "txt", v |-> 0]
MarkTok == [k |-> "mark", v |-> 0]

Fail == [ok |-> FALSE, val |-> <<>>]
Ok(v) == [ok |-> TRUE, val |-> v]

\* float(token): integer and decimal literals convert, anything else raises
IsFloat(t) == t.k \in {"int", "dec"}
FloatOf(t) == IF t.k = "int" THEN 10 * t.v ELSE t.v

\* int(token): only an integer literal converts
IsInt(t) == t.k = "int"
IntOf(t) == t.v

\* row-major flattening of a list of rows
RECURSIVE Flatten(_)
Flatten(rows) == IF rows = <<>> THEN <<>> ELSE Head(rows) \o Flatten(Tail(rows))

----------------------------------------------------------------------------
(* read_data *)

\* line 73: keep a line that is not blank and does not start with '>'
KeepLine(line) == Len(line) > 0 /\ line[1].k # "mark"

\* line 77: np.array(result, dtype=float); a ragged list or a non-numeric
\* token raises, an empty list gives a 1-D array of shape (0,)
NpArray(result) ==
    IF \E i \in 1..Len(result) : \E j \in 1..Len(result[i]) : ~IsFloat(result[i][j])
    THEN Fail
    ELSE IF \E i \in 1..Len(result) : Len(result[i]) # Len(result[1])
    THEN Fail
    ELSE Ok([i \in 1..Len(result) |-> [j \in 1..Len(result[i]) |-> FloatOf(result[i][j])]])

\* lines 78-84: truncate to the first data_height rows, or append zero rows
TruncBody_Last(mat, data_height) == SubSeq(mat, Len(mat) - data_height + 1, Len(mat))
TruncBody(mat, data_height) == SubSeq(mat, 1, data_height)
PadBody_Before(mat, data_height) ==
    [i \in 1..(data_height - Len(mat)) |-> [j \in 1..Len(mat[1]) |-> 0]] \o mat
PadBody(mat, data_height) ==
    mat \o [i \in 1..(data_height - Len(mat)) |-> [j \in 1..Len(mat[1]) |-> 0]]

TruncOrPad(mat, data_height) ==
    IF Len(mat) > data_height
    THEN Ok(TruncBody(mat, data_height))
    ELSE IF mat = <<>>
    THEN Fail       \* np.pad of a 1-D array with a 2-axis pad width raises
    ELSE Ok(PadBody(mat, data_height))

\* line 91: reshape((data_height, data_width, 1)); raises unless the element
\* count is data_height * data_width
Reshape(new_mat, data_height, data_width) ==
    LET flat == Flatten(new_mat) IN
    IF Len(flat) # data_height * data_width
    THEN Fail
    ELSE Ok([i \in 1..data_height |->
               [j \in 1..data_width |-> <<flat[(i - 1) * data_width + j]>>]])

ReadData(file, data_height, data_width) ==
    LET result == SelectSeq(file.lines, KeepLine)
        mat == NpArray(result)
    IN IF ~mat.ok THEN Fail
       ELSE LET new_mat == TruncOrPad(mat.val, data_height)
            IN IF ~new_mat.ok THEN Fail
               ELSE Reshape(new_mat.val, data_height, data_width)

----------------------------------------------------------------------------
(* get_datasets *)

\* line 46: os.path.join(dataset_path, filename)
PathJoin(filename) == <<"dataset_path", filename>>

\* line 54: m_class_info[1], the second token of the header line
ClassToken_First(m_class_info) == m_class_info[1]
ClassToken(m_class_info) == m_class_info[2]

\* line 54: int(m_class_info[1]) - 1; IndexError when the header has fewer
\* than two tokens, ValueError when the token is not an integer literal
LabelOf(m_class_info) ==
    IF Len(m_class_info) < 2 THEN Fail
    ELSE IF ~IsInt(ClassToken(m_class_info)) THEN Fail
    ELSE Ok(IntOf(ClassToken(m_class_info)) - 1)

\* lines 45-54: the loop over os.listdir, from entry i on
RECURSIVE GetDatasetsFrom(_, _, _, _)
GetDatasetsFrom(files, i, sample_paths, sample_labels) ==
    IF i > Len(files)
    THEN Ok([paths |-> sample_paths, labels |-> sample_labels])
    ELSE IF ~files[i].isfile
    THEN GetDatasetsFrom(files, i + 1, sample_paths, sample_labels)
    ELSE LET label == LabelOf(files[i].header)
         IN IF ~label.ok THEN Fail
            ELSE GetDatasetsFrom(files, i + 1,
                                 Append(sample_paths, PathJoin(files[i].name)),
                                 Append(sample_labels, label.val))

GetDatasets(files) == GetDatasetsFrom(files, 1, <<>>, <<>>)

----------------------------------------------------------------------------
(* Bounded inputs of the two function harnesses *)

SeqsUpTo(S, n) == UNION {[1..m -> S] : m \in 0..n}

RdLines == { <<>>, <<MarkTok, IntTok(1)>>, <<TxtTok>>,
             <<IntTok(1)>>, <<IntTok(2)>>, <<IntTok(3)>>,
             <<IntTok(1), IntTok(2)>>, <<IntTok(3), IntTok(1)>>,
             <<DecTok(15), IntTok(2)>> }
RdFiles == {[lines |-> ls] : ls \in SeqsUpTo(RdLines, MaxLines)}

DsHeaders == { <<>>, <<MarkTok>>, <<IntTok(2)>>,
               <<MarkTok, IntTok(1)>>, <<MarkTok, IntTok(2)>>,
               <<IntTok(1), IntTok(3)>>, <<IntTok(2), TxtTok>>,
               <<MarkTok, DecTok(15)>>, <<MarkTok, IntTok(3), TxtTok>> }
DsEntries == {[isfile |-> FALSE, header |-> <<>>]}
             \cup {[isfile |-> TRUE, header |-> h] : h \in DsHeaders}
\* a directory: entries named by their position in the listing
DsDirs == {[i \in 1..Len(es) |-> [name |-> i, isfile |-> es[i].isfile, header |-> es[i].header]] :
             es \in SeqsUpTo(DsEntries, MaxFiles)}

----------------------------------------------------------------------------
(* State of run_model before the call, and while another harness runs *)

RunBlank ==
    /\ dir = <<>> /\ n_steps = 0 /\ folds = 0
    /\ traning_set = <<>> /\ training_labels = <<>>
    /\ cv_index_set = <<>> /\ k_fold_step = 0
    /\ train_index = <<>> /\ test_index = <<>>
    /\ step = 0 /\ pos = 0
    /\ batch_x = <<>> /\ batch_y = <<>> /\ batch_test_x = <<>> /\ batch_test_y = <<>>
    /\ weights = <<>> /\ evalOut = <<>>
    /\ test_cache = <<>> /\ pred_cache = <<>> /\ test_index_cache = <<>> /\ f_cache = <<>>
    /\ report = <<>> /\ csv = <<>> /\ console = <<>>
    /\ fitLog = <<>> /\ evalLog = <<>> /\ encLog = <<>> /\ splits = <<>>
    /\ failed = FALSE

RdIdle == rd_pc = "idle" /\ rd_file = [lines |-> <<>>] /\ rd_h = 0 /\ rd_w = 0 /\ rd_out = Fail
DsIdle == ds_pc = "idle" /\ ds_dir = <<>> /\ ds_out = Fail

----------------------------------------------------------------------------
(* SpecRead: read_data on every bounded file *)

RdInit ==
    /\ rd_pc = "call"
    /\ rd_file \in RdFiles
    /\ rd_h \in 1..MaxHeight
    /\ rd_w \in 1..MaxWidth
    /\ rd_out = Fail
    /\ DsIdle /\ pc = "idle" /\ RunBlank

RdCall ==
    /\ rd_pc = "call"
    /\ rd_out' = ReadData(rd_file, rd_h, rd_w)
    /\ rd_pc' = "ret"
    /\ UNCHANGED <<rd_file, rd_h, rd_w, dsVars, runVars>>

RdNext == RdCall
SpecRead == RdInit /\ [][RdNext]_vars

(* SpecDs: get_datasets on every bounded directory *)

DsInit ==
    /\ ds_pc = "call"
    /\ ds_dir \in DsDirs
    /\ ds_out = Fail
    /\ RdIdle /\ pc = "idle" /\ RunBlank

DsCall ==
    /\ ds_pc = "call"
    /\ ds_out' = GetDatasets(ds_dir)
    /\ ds_pc' = "ret"
    /\ UNCHANGED <<ds_dir, rdVars, runVars>>

DsNext == DsCall
SpecDs == DsInit /\ [][DsNext]_vars

----------------------------------------------------------------------------
(* run_model: the inputs of a run *)

\* One sample file of a run: a '>' header line carrying the 1-indexed class as
\* its second token, 1 to 3 feature rows of width RunWidth, a trailing blank
\* line.  Sample i carries the value i + 1 so that its tensor identifies it.
\* bad = "parse" puts a non-numeric token in the first row, bad = "shape" makes
\* the rows one column too wide, bad = "header" drops the class token.
RunRow(i, bad) ==
    IF bad = "shape" THEN <<IntTok(i + 1), IntTok(i + 1)>> ELSE <<IntTok(i + 1)>>
RunFile(i, bad) ==
    LET header == IF bad = "header" THEN <<MarkTok>>
                  ELSE <<MarkTok, IntTok((i % NClasses) + 1)>>
        rows == [r \in 1..(1 + (i % 3)) |->
                   IF r = 1 /\ bad = "parse" THEN <<TxtTok>> ELSE RunRow(i, bad)]
    IN [name |-> i, isfile |-> TRUE, header |-> header,
        lines |-> <<header>> \o rows \o << <<>> >>]
SubDir == [name |-> -1, isfile |-> FALSE, header |-> <<>>, lines |-> <<>>]

\* the listing of a dataset directory of n samples with one sub-directory in
\* it; sample badAt (if any) is damaged the way bad says
RunDir(n, badAt, bad) ==
    LET files == [j \in 1..n |-> RunFile(j - 1, IF j - 1 = badAt THEN bad ELSE "none")]
    IN <<files[1], SubDir>> \o SubSeq(files, 2, n)

\* the file behind a path of traning_set
FileAt(path) == CHOOSE e \in {dir[j] : j \in 1..Len(dir)} : e.isfile /\ PathJoin(e.name) = path

----------------------------------------------------------------------------
(* sklearn KFold(n_splits, shuffle=True, random_state).split *)

RECURSIVE SortedSeq(_)
SortedSeq(S) ==
    IF S = {} THEN <<>>
    ELSE LET m == CHOOSE x \in S : \A y \in S : x <= y
         IN <<m>> \o SortedSeq(S \ {m})

\* size of test block f (1-based): n \div k, the first n % k blocks one more
FoldSize(n, k, f) == (n \div k) + (IF f <= n % k THEN 1 ELSE 0)
FoldStart_Overlap(n, k, f) == 0
FoldStart(n, k, f) ==
    LET RECURSIVE upto(_)
        upto(g) == IF g = 0 THEN 0 ELSE FoldSize(n, k, g) + upto(g - 1)
    IN upto(f - 1)

\* the pairs of the split: block f of the shuffled order is the test
\* partition, the rest the train partition, both as ascending index arrays
KFoldSplit(n, k, perm) ==
    IF k > n THEN Fail
    ELSE Ok([f \in 1..k |->
              LET test == {perm[j] - 1 :
                             j \in (FoldStart(n, k, f) + 1)..(FoldStart(n, k, f) + FoldSize(n, k, f))}
              IN [train |-> SortedSeq((0..(n - 1)) \ test), test |-> SortedSeq(test)]])

----------------------------------------------------------------------------
(* The classifier, as far as run_model observes it *)

\* a session's variables before and after sess.run(init)
TfSession == [init |-> FALSE, fits |-> <<>>]
sess_run_init_Keep(w) == w
sess_run_init(w) == [init |-> TRUE, fits |-> <<>>]

\* sess.run(train_op): one more update of the variables
TrainOp(w, fold, st) == [init |-> w.init, fits |-> Append(w.fits, <<fold, st>>)]

\* logits_test and f1024_test of one row of the batch: functions of the
\* variables and of the row
LogitsTest(w, x) ==
    LET cls == ((x[1][1][1] \div 10) + Len(w.fits)) % NClasses
    IN [c \in 1..NClasses |-> IF c - 1 = cls THEN 9 ELSE 1]
F1024Test(w, x) == <<x[1][1][1], Len(w.fits)>>

\* np.argmax over one row of scores
ArgMax(scores) ==
    (CHOOSE c \in 1..Len(scores) :
        /\ \A d \in 1..Len(scores) : scores[d] <= scores[c]
        /\ \A d \in 1..(c - 1) : scores[d] < scores[c]) - 1

\* a batch of labels that was never stacked is a 0-d value, not an array
IsZeroDim(b) == Len(b) = 1

----------------------------------------------------------------------------
(* run_model: statements the actions are built from *)

\* lines 254, 258: training_labels[i]
TrainLabelAt_First(labels, sample_index, i) == labels[sample_index[1] + 1]
TrainLabelAt(labels, sample_index, i) == labels[i + 1]
\* lines 242, 276: training_labels[i]
TestLabelAt_First(labels, tindex, i) == labels[tindex[1] + 1]
TestLabelAt(labels, tindex, i) == labels[i + 1]
\* line 255: sample_index[1:] and line 273: test_index[1:]
TrainRest(sample_index) == Tail(sample_index)
TestRest_All(tindex) == tindex
TestRest(tindex) == Tail(tindex)
\* line 244: range(1, n_steps + 1) has a next value after st
MoreSteps_Short(st, n) == st < n - 1
MoreSteps(st, n) == st < n
\* an exception raised inside run_model is caught nowhere: the call ends
Raise_Swallow(here) == here
Raise(here) == "aborted"
\* line 262
Display(st) == st % DISPLAY_STEP = 0 \/ st = 1

Encode(i) == ReadData(FileAt(traning_set[i + 1]), RunHeight, RunWidth)

\* loop conditions: line 255 / line 273 have a next sample, or are exhausted
TrainLoopHasNext == pos < Len(TrainRest(train_index))
TrainLoopOver == pos = Len(TrainRest(train_index))
TestLoopHasNext == pos < Len(TestRest(test_index))
TestLoopOver == pos = Len(TestRest(test_index))

----------------------------------------------------------------------------
(* run_model: the actions *)

\* the arguments of the call and the directory it is pointed at
RunDirs(n) ==
    {RunDir(n, -1, "none")}
    \cup {RunDir(n, badAt, bad) : badAt \in 0..(n - 1), bad \in {"parse", "shape", "header"}}

RunBlankBut ==
    /\ traning_set = <<>> /\ training_labels = <<>>
    /\ cv_index_set = <<>> /\ k_fold_step = 0
    /\ train_index = <<>> /\ test_index = <<>>
    /\ step = 0 /\ pos = 0
    /\ batch_x = <<>> /\ batch_y = <<>> /\ batch_test_x = <<>> /\ batch_test_y = <<>>
    /\ weights = <<>> /\ evalOut = <<>>
    /\ test_cache = <<>> /\ pred_cache = <<>> /\ test_index_cache = <<>> /\ f_cache = <<>>
    /\ report = <<>> /\ csv = <<>> /\ console = <<>>
    /\ fitLog = <<>> /\ evalLog = <<>> /\ encLog = <<>> /\ splits = <<>>
    /\ failed = FALSE

Init ==
    /\ pc = "start"
    /\ \E n \in 2..MaxN : dir \in RunDirs(n)
    /\ folds \in 2..MaxFolds
    /\ n_steps \in 0..MaxSteps
    /\ RunBlankBut
    /\ RdIdle /\ DsIdle

obsVars == <<fitLog, evalLog, encLog, failed, splits>>
paramVars == <<dir, n_steps, folds, traning_set, training_labels>>
cacheVars == <<test_cache, pred_cache, test_index_cache, f_cache>>
outVars == <<report, csv>>

\* lines 189-228: build the graph, read the dataset, set up the splitter (the
\* seed decides the shuffled order perm) and the empty caches
Start ==
    /\ pc = "start"
    /\ LET ds == GetDatasets(dir)
       IN IF ~ds.ok
          THEN /\ pc' = Raise("start")
               /\ UNCHANGED <<traning_set, training_labels, cv_index_set,
                              k_fold_step, cacheVars>>
          ELSE \E perm \in Permutations(1..Len(ds.val.labels)) :
               /\ traning_set' = ds.val.paths
               /\ training_labels' = ds.val.labels
               /\ cv_index_set' = KFoldSplit(Len(ds.val.labels), folds, perm)
               /\ k_fold_step' = 1
               /\ test_cache' = <<>> /\ pred_cache' = <<>> /\ test_index_cache' = <<>>
               /\ f_cache' = << <<0, 0>> >>
               /\ pc' = "fold_loop"
    /\ UNCHANGED <<dir, n_steps, folds, train_index, test_index, step, pos, batch_x,
                   batch_y, batch_test_x, batch_test_y, weights, evalOut, outVars,
                   console, obsVars, rdVars, dsVars>>

\* lines 231-238: take the next pair of the split (the split raises when there
\* are more folds than samples), open a session and run the initializer
FoldNext ==
    /\ pc = "fold_loop"
    /\ cv_index_set.ok /\ cv_index_set.val # <<>>
    /\ train_index' = Head(cv_index_set.val).train
    /\ test_index' = Head(cv_index_set.val).test
    /\ cv_index_set' = Ok(Tail(cv_index_set.val))
    /\ console' = Append(console, <<"sizes", Len(train_index'), Len(test_index')>>)
    /\ weights' = sess_run_init(TfSession)
    /\ splits' = Append(splits, Head(cv_index_set.val))
    /\ fitLog' = <<>> /\ encLog' = <<>>
    /\ pc' = "test_first"
    /\ UNCHANGED <<paramVars, k_fold_step, step, pos, batch_x, batch_y, batch_test_x,
                   batch_test_y, evalOut, cacheVars, outVars, evalLog, failed,
                   rdVars, dsVars>>

SplitRaises ==
    /\ pc = "fold_loop"
    /\ ~cv_index_set.ok
    /\ pc' = Raise("fold_loop")
    /\ UNCHANGED <<paramVars, cv_index_set, k_fold_step, train_index, test_index, step,
                   pos, batch_x, batch_y, batch_test_x, batch_test_y, weights, evalOut,
                   cacheVars, outVars, console, obsVars, rdVars, dsVars>>

\* lines 240-244: encode the first test sample, then enter the training loop
TestFirst ==
    /\ pc = "test_first"
    /\ LET i == test_index[1]
           enc == Encode(i)
       IN IF ~enc.ok
          THEN /\ failed' = TRUE
               /\ pc' = Raise("test_first")
               /\ UNCHANGED <<batch_test_x, batch_test_y, encLog, step, pos>>
          ELSE /\ batch_test_x' = <<enc.val>>
               /\ batch_test_y' = <<TestLabelAt(training_labels, test_index, i)>>
               /\ encLog' = Append(encLog, i)
               /\ failed' = failed
               /\ step' = 1 /\ pos' = 0
               /\ pc' = IF 1 <= n_steps THEN "train_first" ELSE "test_rest"
    /\ UNCHANGED <<paramVars, cv_index_set, k_fold_step, train_index, test_index,
                   batch_x, batch_y, weights, evalOut, cacheVars, outVars, console,
                   fitLog, evalLog, splits, rdVars, dsVars>>

\* lines 246-254: start the batch of this step with the first train sample
TrainFirst ==
    /\ pc = "train_first"
    /\ LET sample_index == train_index
           i == sample_index[1]
           enc == Encode(i)
       IN IF ~enc.ok
          THEN /\ failed' = TRUE
               /\ pc' = Raise("train_first")
               /\ UNCHANGED <<batch_x, batch_y, pos>>
          ELSE /\ batch_x' = <<enc.val>>
               /\ batch_y' = <<TrainLabelAt(training_labels, sample_index, i)>>
               /\ failed' = failed
               /\ pos' = 0
               /\ pc' = "train_rest"
    /\ UNCHANGED <<paramVars, cv_index_set, k_fold_step, train_index, test_index, step,
                   batch_test_x, batch_test_y, weights, evalOut, cacheVars, outVars,
                   console, fitLog, evalLog, encLog, splits, rdVars, dsVars>>

\* lines 255-258: stack one more train sample and its label
TrainStack ==
    /\ pc = "train_rest"
    /\ TrainLoopHasNext
    /\ LET sample_index == train_index
           i == TrainRest(sample_index)[pos + 1]
           enc == Encode(i)
       IN IF ~enc.ok
          THEN /\ failed' = TRUE
               /\ pc' = Raise("train_rest")
               /\ UNCHANGED <<batch_x, batch_y, pos>>
          ELSE /\ batch_x' = Append(batch_x, enc.val)
               /\ batch_y' = Append(batch_y, TrainLabelAt(training_labels, sample_index, i))
               /\ failed' = failed
               /\ pos' = pos + 1
               /\ pc' = "train_rest"
    /\ UNCHANGED <<paramVars, cv_index_set, k_fold_step, train_index, test_index, step,
                   batch_test_x, batch_test_y, weights, evalOut, cacheVars, outVars,
                   console, fitLog, evalLog, encLog, splits, rdVars, dsVars>>

\* lines 260-270: the fit step on the assembled batch, the progress line on
\* step 1 and every DISPLAY_STEP-th step, then the next step or the end of
\* training.  A 0-d label batch (a train partition of one sample) is refused
\* by the loss kernel; tfRejects leaves the runtime's choice open.
Fit ==
    /\ pc = "train_rest"
    /\ TrainLoopOver
    /\ \E tfRejects \in BOOLEAN :
        IF (IsZeroDim(batch_y) /\ tfRejects) \/ ~weights.init
        THEN /\ pc' = Raise("train_rest")
             /\ UNCHANGED <<weights, fitLog, console, step, pos>>
        ELSE /\ (~IsZeroDim(batch_y) => ~tfRejects)
             /\ weights' = TrainOp(weights, k_fold_step, step)
             /\ fitLog' = Append(fitLog, [fold |-> k_fold_step, step |-> step,
                                          x |-> batch_x, y |-> batch_y, w |-> weights])
             /\ LET shown == IF Display(step)
                             THEN Append(console, <<"step", step>>) ELSE console
                IN IF MoreSteps(step, n_steps)
                   THEN /\ step' = step + 1
                        /\ console' = shown
                        /\ pc' = "train_first"
                   ELSE /\ step' = step
                        /\ console' = Append(shown, <<"finished">>)
                        /\ pc' = "test_rest"
             /\ pos' = 0
    /\ UNCHANGED <<paramVars, cv_index_set, k_fold_step, train_index, test_index,
                   batch_x, batch_y, batch_test_x, batch_test_y, evalOut, cacheVars,
                   outVars, evalLog, encLog, failed, splits, rdVars, dsVars>>

\* lines 273-276: stack one more test sample and its label
TestStack ==
    /\ pc = "test_rest"
    /\ TestLoopHasNext
    /\ LET i == TestRest(test_index)[pos + 1]
           enc == Encode(i)
       IN IF ~enc.ok
          THEN /\ failed' = TRUE
               /\ pc' = Raise("test_rest")
               /\ UNCHANGED <<batch_test_x, batch_test_y, encLog, pos>>
          ELSE /\ batch_test_x' = Append(batch_test_x, enc.val)
               /\ batch_test_y' = Append(batch_test_y, TestLabelAt(training_labels, test_index, i))
               /\ encLog' = Append(encLog, i)
               /\ failed' = failed
               /\ pos' = pos + 1
               /\ pc' = "test_rest"
    /\ UNCHANGED <<paramVars, cv_index_set, k_fold_step, train_index, test_index, step,
                   batch_x, batch_y, weights, evalOut, cacheVars, outVars, console,
                   fitLog, evalLog, splits, rdVars, dsVars>>

\* lines 278-283: the held-out evaluation on the test batch and the fold's
\* summary line
Eval ==
    /\ pc = "test_rest"
    /\ TestLoopOver
    /\ \E tfRejects \in BOOLEAN :
        IF (IsZeroDim(batch_test_y) /\ tfRejects) \/ ~weights.init
        THEN /\ pc' = Raise("test_rest")
             /\ UNCHANGED <<evalOut, evalLog, console>>
        ELSE /\ (~IsZeroDim(batch_test_y) => ~tfRejects)
             /\ evalOut' = [predVal |-> [j \in 1..Len(batch_test_x) |->
                                            LogitsTest(weights, batch_test_x[j])],
                            fData |-> [j \in 1..Len(batch_test_x) |->
                                            F1024Test(weights, batch_test_x[j])]]
             /\ evalLog' = Append(evalLog, [fold |-> k_fold_step, fits |-> Len(fitLog),
                                            x |-> batch_test_x, y |-> batch_test_y])
             /\ console' = Append(console, <<"fold", k_fold_step, Len(test_index)>>)
             /\ pc' = "append"
    /\ UNCHANGED <<paramVars, cv_index_set, k_fold_step, train_index, test_index, step,
                   pos, batch_x, batch_y, batch_test_x, batch_test_y, weights, cacheVars,
                   outVars, fitLog, encLog, failed, splits, rdVars, dsVars>>

\* lines 287-298: decode the predictions and append the fold's results to the
\* caches; np.concatenate raises on a 0-d label batch (a test partition of one
\* sample)
CacheAppend ==
    /\ pc = "append"
    /\ IF IsZeroDim(batch_test_y)
       THEN /\ pc' = Raise("append")
            /\ UNCHANGED <<cacheVars, k_fold_step, console>>
       ELSE /\ LET argmax_pred == [j \in 1..Len(evalOut.predVal) |-> ArgMax(evalOut.predVal[j])]
               IN /\ test_cache' = test_cache \o batch_test_y
                  /\ pred_cache' = pred_cache \o argmax_pred
                  /\ test_index_cache' = test_index_cache \o test_index
                  /\ f_cache' = f_cache \o evalOut.fData
            /\ console' = Append(console, <<"=====">>)
            /\ k_fold_step' = k_fold_step + 1
            /\ pc' = "fold_loop"
    /\ UNCHANGED <<paramVars, cv_index_set, train_index, test_index, step, pos, batch_x,
                   batch_y, batch_test_x, batch_test_y, weights, evalOut, outVars,
                   obsVars, rdVars, dsVars>>

\* lines 300-302: after the last fold, the aggregate report over the caches
Report ==
    /\ pc = "fold_loop"
    /\ cv_index_set.ok /\ cv_index_set.val = <<>>
    /\ report' = <<[n_classes |-> NClasses, y_true |-> test_cache, y_pred |-> pred_cache]>>
    /\ pc' = "export"
    /\ UNCHANGED <<paramVars, cv_index_set, k_fold_step, train_index, test_index, step,
                   pos, batch_x, batch_y, batch_test_x, batch_test_y, weights, evalOut,
                   cacheVars, csv, console, obsVars, rdVars, dsVars>>

\* lines 304-310: the feature table: f_cache without its placeholder row,
\* indexed by the true labels, with the sample paths as first column
Export ==
    /\ pc = "export"
    /\ IF Len(f_cache) - 1 # Len(test_cache) \/ Len(test_index_cache) # Len(test_cache)
       THEN /\ pc' = Raise("export")
            /\ csv' = csv
       ELSE /\ csv' = [j \in 1..Len(test_cache) |->
                         [Class |-> test_cache[j],
                          Samples |-> traning_set[test_index_cache[j] + 1],
                          f |-> f_cache[j + 1]]]
            /\ pc' = "done"
    /\ UNCHANGED <<paramVars, cv_index_set, k_fold_step, train_index, test_index, step,
                   pos, batch_x, batch_y, batch_test_x, batch_test_y, weights, evalOut,
                   cacheVars, report, console, obsVars, rdVars, dsVars>>

Next ==
    \/ Start \/ FoldNext \/ SplitRaises \/ TestFirst \/ TrainFirst \/ TrainStack
    \/ Fit \/ TestStack \/ Eval \/ CacheAppend \/ Report \/ Export

Spec == Init /\ [][Next]_vars

----------------------------------------------------------------------------
(* Properties of read_data (SpecRead) *)

\* the matrix read_data parses from the file, before it is resized
RdParsed == NpArray(SelectSeq(rd_file.lines, KeepLine))
RdIsMatrixOfWidth == RdParsed.ok /\ Len(RdParsed.val) >= 1 /\ Len(RdParsed.val[1]) = rd_w
RdRowsKept(m) ==
    \A i \in 1..m : /\ Len(rd_out.val[i]) = rd_w
                    /\ \A j \in 1..rd_w : rd_out.val[i][j] = <<RdParsed.val[i][j]>>

\* C4: a parsed matrix of width W with more than H rows is returned as exactly
\* H rows, row i of the result being row i of the matrix
C4_Truncation ==
    (rd_pc = "ret" /\ RdIsMatrixOfWidth /\ Len(RdParsed.val) > rd_h)
        => /\ rd_out.ok
           /\ Len(rd_out.val) = rd_h
           /\ RdRowsKept(rd_h)
C4_Witness ==
    /\ rd_pc = "ret" /\ RdIsMatrixOfWidth /\ Len(RdParsed.val) > rd_h
    /\ rd_h = 2 /\ rd_out.ok /\ rd_out.val[1] # rd_out.val[2]
    /\ RdParsed.val[3] # RdParsed.val[1]

----------------------------------------------------------------------------
(* Properties of get_datasets (SpecDs) *)

DsRegular == SelectSeq(ds_dir, LAMBDA e : e.isfile)
DsRecorded(tokenAt) ==
    /\ ds_out.ok
    /\ Len(ds_out.val.paths) = Len(DsRegular)
    /\ Len(ds_out.val.labels) = Len(DsRegular)
    /\ \A j \in 1..Len(DsRegular) :
          /\ ds_out.val.paths[j] = PathJoin(DsRegular[j].name)
          /\ ds_out.val.labels[j] = DsRegular[j].header[tokenAt].v - 1
DsTokenIsInt(tokenAt) ==
    \A j \in 1..Len(DsRegular) :
        Len(DsRegular[j].header) >= tokenAt /\ DsRegular[j].header[tokenAt].k = "int"

\* C8 as stated: the label is the FIRST header token minus 1, one (path, label)
\* pair per regular file, failure when that token is missing or not an integer
C8_FirstToken ==
    ds_pc = "ret" => IF DsTokenIsInt(1) THEN DsRecorded(1) ELSE ~ds_out.ok

\* C8 amended: the label is the SECOND whitespace-delimited token of the header
\* line, parsed as an integer, minus 1; one (path, label) pair per regular file
\* at the same position of both lists; the call fails when a regular file's
\* header has no second token or that token is not an integer
C8_SecondToken ==
    ds_pc = "ret" => IF DsTokenIsInt(2) THEN DsRecorded(2) ELSE ~ds_out.ok
C8_Witness ==
    /\ ds_pc = "ret" /\ ds_out.ok
    /\ Len(ds_dir) = 3 /\ Len(DsRegular) = 2
    /\ DsRegular[1].header = <<IntTok(1), IntTok(3)>>
    /\ ds_out.val.labels[1] = 2
    /\ DsRegular[2].header[1].k = "mark"

----------------------------------------------------------------------------
(* Properties of run_model (Spec) *)

NSamples == Len(training_labels)
SeqRange(q) == {q[j] : j \in 1..Len(q)}
Started == k_fold_step >= 1
InFold == pc \in {"test_first", "train_first", "train_rest", "test_rest", "append"}
\* number of test indices of the folds that were completed
RECURSIVE TestsOfFolds(_)
TestsOfFolds(f) == IF f = 0 THEN 0 ELSE Len(splits[f].test) + TestsOfFolds(f - 1)
\* the classifier after a whole fold of training
Trained == [init |-> TRUE, fits |-> [m \in 1..n_steps |-> <<0, m>>]]

\* C1: every pair of the split has disjoint train and test index sets whose
\* union is [0, N); after a completed run test_index_cache holds every index
\* of [0, N) exactly once
C1_TestCoverage ==
    /\ \A f \in 1..Len(splits) :
          /\ SeqRange(splits[f].train) \cap SeqRange(splits[f].test) = {}
          /\ SeqRange(splits[f].train) \cup SeqRange(splits[f].test) = 0..(NSamples - 1)
    /\ pc = "done" =>
          /\ Len(splits) = folds
          /\ Len(test_index_cache) = NSamples
          /\ SeqRange(test_index_cache) = 0..(NSamples - 1)
C1_Witness ==
    /\ pc = "done" /\ NSamples = 5 /\ Len(splits) = 2
    /\ test_index_cache[1] > test_index_cache[4]

\* C2: the batch of every train_op call of a fold is the encoding of that
\* fold's train partition, sample by sample, each with its own label, and holds
\* no sample of the fold's test partition
C2_TrainIsolation ==
    \A m \in 1..Len(fitLog) :
        LET e == fitLog[m]
            sp == splits[e.fold]
        IN /\ e.x = [j \in 1..Len(sp.train) |-> Encode(sp.train[j]).val]
           /\ e.y = [j \in 1..Len(sp.train) |-> training_labels[sp.train[j] + 1]]
           /\ \A t \in SeqRange(sp.test) : \A j \in 1..Len(e.x) : e.x[j] # Encode(t).val
C2_Witness ==
    /\ Len(fitLog) = 2 /\ k_fold_step = 2
    /\ Len(fitLog[2].x) = 3 /\ fitLog[2].y = <<0, 1, 1>>

\* C3: inside a fold the classifier state is initialized and carries fit steps
\* of this fold only; before the fold's first fit step it carries none
C3_FreshClassifier ==
    /\ InFold => /\ weights.init
                 /\ \A m \in 1..Len(weights.fits) : weights.fits[m][1] = k_fold_step
    /\ pc = "test_first" => weights.fits = <<>>
    /\ \A m \in 1..Len(fitLog) :
          /\ fitLog[m].w.init
          /\ fitLog[m].step = 1 => fitLog[m].w.fits = <<>>
          /\ \A q \in 1..Len(fitLog[m].w.fits) : fitLog[m].w.fits[q][1] = fitLog[m].fold
C3_Witness ==
    /\ pc = "train_first" /\ k_fold_step = 2 /\ step = 1 /\ n_steps = 2
    /\ weights = [init |-> TRUE, fits |-> <<>>]

\* C6: the four caches stay aligned (the feature cache after its placeholder
\* row): position j of each belongs to sample test_index_cache[j]; the table of
\* a completed run has one row per sample, whose path, class and features
\* belong to one sample
C6_CacheAligned ==
    Started =>
      /\ Len(test_cache) = Len(test_index_cache)
      /\ Len(pred_cache) = Len(test_index_cache)
      /\ Len(f_cache) - 1 = Len(test_index_cache)
      /\ f_cache[1] = <<0, 0>>
      /\ \A j \in 1..Len(test_index_cache) :
            LET i == test_index_cache[j] IN
            /\ test_cache[j] = training_labels[i + 1]
            /\ pred_cache[j] = ArgMax(LogitsTest(Trained, Encode(i).val))
            /\ f_cache[j + 1] = F1024Test(Trained, Encode(i).val)
      /\ pc = "done" =>
            /\ Len(csv) = NSamples
            /\ {csv[j].Samples : j \in 1..Len(csv)} = SeqRange(traning_set)
            /\ \A j \in 1..Len(csv) : \E i \in 0..(NSamples - 1) :
                  /\ csv[j].Samples = traning_set[i + 1]
                  /\ csv[j].Class = training_labels[i + 1]
                  /\ csv[j].f = F1024Test(Trained, Encode(i).val)
C6_Witness ==
    /\ pc = "done" /\ Len(csv) = 5 /\ n_steps = 1
    /\ csv[1].Class # csv[2].Class

\* C7: once a read_data call has raised the run is over: no step follows, the
\* failing fold was not evaluated and nothing of it is in the caches, and
\* neither the report nor the table exists
C7_AbortOnError ==
    /\ [](failed => /\ pc = "aborted"
                    /\ report = <<>> /\ csv = <<>>
                    /\ Len(evalLog) = k_fold_step - 1
                    /\ Len(test_index_cache) = TestsOfFolds(k_fold_step - 1))
    /\ [][failed => UNCHANGED runVars]_vars
C7_Witness ==
    /\ failed /\ pc = "aborted"
    /\ k_fold_step = 2 /\ Len(test_index_cache) = 3 /\ Len(encLog) = 1

\* C9 as stated: when the fold is training, every sample of its test partition
\* has been encoded, exactly once
C9_AllTestEncodedBeforeFit ==
    pc \in {"train_first", "train_rest"} =>
        \A t \in SeqRange(test_index) :
            Cardinality({j \in 1..Len(encLog) : encLog[j] = t}) = 1

\* C9 amended: before and during the fit steps of a fold only the first sample
\* of the test partition has been encoded; the others are encoded after the
\* last fit step, in order, before the held-out evaluation; by then each
\* sample of the test partition has been encoded exactly once
C9_TestEncodedOnce ==
    /\ pc \in {"train_first", "train_rest"} => encLog = <<test_index[1]>>
    /\ pc = "test_rest" => /\ Len(encLog) = pos + 1
                           /\ Len(encLog) <= Len(test_index)
                           /\ \A j \in 1..Len(encLog) : encLog[j] = test_index[j]
                           /\ Len(fitLog) = n_steps
    /\ pc = "append" => encLog = test_index
C9_Witness ==
    /\ pc = "append" /\ Len(test_index) = 3 /\ n_steps = 2 /\ encLog = test_index

\* C10: the fit steps of a fold are steps 1, 2, ... in order, at most n_steps
\* of them; the fold is evaluated once, after its n_steps-th fit step, on the
\* batch of its whole test partition; its results enter the caches only after
\* that; and every fold that was begun is completed unless the run aborts:
\* inside a fold one of the loop conditions always holds, so a step is
\* possible, and every step brings the end of the run nearer
C10_Order ==
    Started =>
      /\ Len(fitLog) <= n_steps
      /\ \A m \in 1..Len(fitLog) : fitLog[m].step = m /\ fitLog[m].fold = Len(splits)
      /\ Len(evalLog) >= k_fold_step - 1
      /\ Len(evalLog) <= k_fold_step
      /\ Len(evalLog) = k_fold_step => pc \in {"append", "aborted"}
      /\ \A m \in 1..Len(evalLog) :
            /\ evalLog[m].fold = m
            /\ evalLog[m].fits = n_steps
            /\ evalLog[m].x = [j \in 1..Len(splits[m].test) |-> Encode(splits[m].test[j]).val]
      /\ Len(test_index_cache) = TestsOfFolds(k_fold_step - 1)
      /\ pc \in {"export", "done"} => k_fold_step = folds + 1
\* an upper bound of the steps run_model still takes
FoldCost == 1 + n_steps * (NSamples + 1) + NSamples + 3
StepsLeft ==
    LET T == Len(train_index)
        S == Len(test_index)
        later == IF pc \in {"start", "idle"} \/ ~cv_index_set.ok THEN 1
                 ELSE Len(cv_index_set.val) * FoldCost + 3
    IN CASE pc = "start" -> 1 + folds * (1 + n_steps * (Len(dir) + 1) + Len(dir) + 3) + 3
         [] pc = "fold_loop" -> later
         [] pc = "test_first" -> later + 1 + n_steps * (T + 1) + S + 1
         [] pc = "train_first" -> later + (n_steps - step + 1) * (T + 1) + S + 1
         [] pc = "train_rest" -> later + (T - 1 - pos) + 1 + (n_steps - step) * (T + 1) + S + 1
         [] pc = "test_rest" -> later + (S - 1 - pos) + 2
         [] pc = "append" -> later + 1
         [] pc = "export" -> 1
         [] OTHER -> 0
C10_FoldSteps ==
    /\ []C10_Order
    /\ [](/\ pc = "train_rest" => (TrainLoopHasNext \/ TrainLoopOver)
          /\ pc = "test_rest" => (TestLoopHasNext \/ TestLoopOver)
          /\ pc = "fold_loop" /\ cv_index_set.ok /\ cv_index_set.val # <<>> => Len(splits) < folds)
    /\ [][StepsLeft' < StepsLeft /\ StepsLeft' >= 0]_vars
C10_Witness ==
    /\ pc = "done" /\ Len(evalLog) = 2 /\ n_steps = 2 /\ NSamples = 5

====
